---- MODULE Spec2Model ----
(***************************************************************************)
(* Model of the FriendTech share program                                   *)
(* (src/src/friendTech/solanaFriendTech.rs) and of the pricing harness     *)
(* (src/src/test.rs).                                                      *)
(*                                                                         *)
(* Integer widths are scaled: u64 is 0..MaxU64 and u32 is 0..MaxU32, with  *)
(* MaxU32 < MaxU64 so that the `as u32` cast truncates, and MaxU32 > 10 so *)
(* that both branches of base_price_from_holders are taken.                *)
(* f64 values are exact non-negative rationals n/d plus +inf and NaN (the  *)
(* results of a division by zero); the rounding of f64 is not modelled.    *)
(***************************************************************************)
EXTENDS Integers, Sequences, FiniteSets, TLC

\* ------------------------------------------------------------------ bounds
MaxU64 == 19
MaxU32 == 15
MaxByte == 4
MaxHolders == 16
MaxVolume == 3
MaxTimeHalves == 50

\* ------------------------------------------------------- program constants
DEFAULT_CURRENT_VOLUME == 10
DEFAULT_AVERAGE_VOLUME == 7
DEFAULT_TIME_SINCE_LAST_TRADE == 1
INACTIVITY_THRESHOLD == 24

\* ------------------------------------------------------------ f64 values
RECURSIVE GCD(_, _)
GCD(a, b) == IF b = 0 THEN a ELSE GCD(b, a % b)

\* the finite value n/d (n >= 0, d > 0), in lowest terms
Fin(n, d) == LET g == GCD(n, d) IN [k |-> "fin", n |-> n \div g, d |-> d \div g]
INF == [k |-> "inf", n |-> 1, d |-> 0]
NAN == [k |-> "nan", n |-> 0, d |-> 0]

\* f64 multiplication
FMul(x, y) ==
    IF x.k = "nan" \/ y.k = "nan" THEN NAN
    ELSE IF x.k = "inf" \/ y.k = "inf"
         THEN (IF (x.k = "fin" /\ x.n = 0) \/ (y.k = "fin" /\ y.n = 0) THEN NAN ELSE INF)
         ELSE Fin(x.n * y.n, x.d * y.d)

\* f64 addition
FAdd(x, y) ==
    IF x.k = "nan" \/ y.k = "nan" THEN NAN
    ELSE IF x.k = "inf" \/ y.k = "inf" THEN INF
         ELSE Fin(x.n * y.d + y.n * x.d, x.d * y.d)

\* f64 subtraction x - y of finite values with x >= y
FSub(x, y) == Fin(x.n * y.d - y.n * x.d, x.d * y.d)

\* f64 division of finite non-negative values: x/0 is +inf, 0/0 is NaN
FDiv(x, y) ==
    IF y.n = 0 THEN (IF x.n = 0 THEN NAN ELSE INF)
    ELSE Fin(x.n * y.d, x.d * y.n)

\* x > y on finite values
FGt(x, y) == x.n * y.d > y.n * x.d

\* `n as f64` for an integer n
AsF64(n) == Fin(n, 1)

\* `x as u64`: truncates toward zero, saturates at u64::MAX, NaN becomes 0
AsU64(x) ==
    IF x.k = "nan" THEN 0
    ELSE IF x.k = "inf" THEN MaxU64
         ELSE IF x.n \div x.d > MaxU64 THEN MaxU64 ELSE x.n \div x.d

\* `n as u32` for a u64 n: keeps the low bits
AsU32(n) == n % (MaxU32 + 1)

\* ------------------------------------------------------- Pricing Engine
VOLUME_ADJUSTMENT_FACTOR == Fin(1, 100)
INACTIVITY_ADJUSTMENT_FACTOR == Fin(5, 1000)

\* mutant: the slow regime reaches one holder too far
base_price_threshold_11(current_holders) ==
    IF current_holders <= 11
    THEN FMul(Fin(1, 10), AsF64(current_holders))
    ELSE FAdd(FSub(AsF64(current_holders), AsF64(10)), AsF64(1))

base_price_from_holders(current_holders) ==
    IF current_holders <= 10
    THEN FMul(Fin(1, 10), AsF64(current_holders))
    ELSE FAdd(FSub(AsF64(current_holders), AsF64(10)), AsF64(1))

\* mutant: the threshold itself counts as inactive
InactiveAtThreshold(time_since_last_trade) ==
    ~FGt(AsF64(INACTIVITY_THRESHOLD), time_since_last_trade)

\* the test of line 60: time_since_last_trade > INACTIVITY_THRESHOLD
Inactive(time_since_last_trade) ==
    FGt(time_since_last_trade, AsF64(INACTIVITY_THRESHOLD))

dual_phase_pricing(current_holders, current_volume, average_volume, time_since_last_trade) ==
    LET base_price == base_price_from_holders(current_holders)
        volume_ratio == FDiv(current_volume, average_volume)
    IN IF Inactive(time_since_last_trade)
       THEN FMul(base_price, FSub(AsF64(1), INACTIVITY_ADJUSTMENT_FACTOR))
       ELSE FMul(base_price, FAdd(AsF64(1), FMul(VOLUME_ADJUSTMENT_FACTOR, volume_ratio)))

\* ------------------------------------------------- accounts and inputs
PROGRAM_ID == "friendtech_program"
OTHER_PROGRAM == "system_program"
SPL_TOKEN_ID == "spl_token_program"

\* accounts whose data is read as a ShareAccount, and as an SPL token account
ShareKeys == {"alice", "bob", "foreign", "blank"}
TokenKeys == {"tok", "badtok"}

\* data that unpacks to nothing (wrong length, uninitialized)
Garbage == [owner |-> "none", balance |-> -1]
NoFunds == -1

\* AccountInfo.owner: the program that owns the account
AccountOwner(key) ==
    IF key = "foreign" THEN OTHER_PROGRAM
    ELSE IF key \in TokenKeys THEN SPL_TOKEN_ID ELSE PROGRAM_ID

\* the account lists the host passes: too short, or a share account and a token account
AccountLists ==
    {<<>>} \cup {<<s>> : s \in {"alice"}}
           \cup {<<s, t>> : s \in ShareKeys, t \in TokenKeys}

\* instruction_data: the empty string, a tag alone, a tag and an amount, and
\* one string with a byte left over
Byte == 0..MaxByte
InstructionData ==
    {<<>>} \cup {<<t>> : t \in Byte} \cup {<<t, a>> : t \in Byte, a \in Byte}
           \cup {<<0, 0, 0>>}

BUY_TAG == 0
SELL_TAG == 1
NoInstruction == [tag |-> -1, amount |-> 0]

\* mutant: every tag other than BuyShares is taken for SellShares
try_from_slice_any_tag(data) ==
    IF Len(data) = 0 THEN NoInstruction
    ELSE IF Len(data) # 2 THEN NoInstruction
    ELSE [tag |-> IF data[1] = BUY_TAG THEN BUY_TAG ELSE SELL_TAG, amount |-> data[2]]

\* FriendtechInstruction::try_from_slice: one tag byte, then the amount;
\* fails on an empty or short input, an unknown tag, or bytes left over
try_from_slice(data) ==
    IF Len(data) = 0 THEN NoInstruction
    ELSE IF data[1] \notin {BUY_TAG, SELL_TAG} THEN NoInstruction
    ELSE IF Len(data) # 2 THEN NoInstruction
    ELSE [tag |-> data[1], amount |-> data[2]]

\* ShareAccount::unpack / SplTokenAccount::unpack succeed
UnpackShareOk(d) == d # Garbage
UnpackTokenOk(f) == f # NoFunds

\* mutant: the owner check is left out
OwnerNeverMismatch(key, program_id) == FALSE

\* line 78: account.owner != program_id
OwnerMismatch(key, program_id) == AccountOwner(key) # program_id

\* mutant: funds equal to the price are refused
FundsTooLowOrEqual(funds, total) == funds <= total

\* line 97: user_spl_token_account.amount < total_price
FundsTooLow(funds, total) == funds < total

\* mutant: the balance check is off by one
BalanceTooLowOffByOne(balance, amount) == balance + 1 < amount

\* mutant: selling the whole balance is refused
BalanceTooLowOrEqual(balance, amount) == balance <= amount

\* line 117: share_account.balance < amount
BalanceTooLow(balance, amount) == balance < amount

\* mutant: the buy is priced at the balance it leads to
BuyTotalPriceAfter(balance, amount) ==
    AsU64(FMul(dual_phase_pricing(AsU32(balance + amount),
                                  AsF64(DEFAULT_CURRENT_VOLUME),
                                  AsF64(DEFAULT_AVERAGE_VOLUME),
                                  AsF64(DEFAULT_TIME_SINCE_LAST_TRADE)),
               AsF64(amount)))

\* lines 88-94: the settlement amount of a buy
BuyTotalPrice(balance, amount) ==
    AsU64(FMul(dual_phase_pricing(AsU32(balance),
                                  AsF64(DEFAULT_CURRENT_VOLUME),
                                  AsF64(DEFAULT_AVERAGE_VOLUME),
                                  AsF64(DEFAULT_TIME_SINCE_LAST_TRADE)),
               AsF64(amount)))

\* line 121: the settlement amount of a sell
SellTotalPrice(balance, amount) ==
    AsU64(FMul(base_price_from_holders(AsU32(balance)), AsF64(amount)))

\* lines 101-108 and 122-129: the transfer instruction that is built
TransferIx(token_key, account_key, total) ==
    [source |-> token_key, destination |-> token_key,
     authority |-> AccountOwner(account_key), amount |-> total]
NoTransfer == [source |-> "none", destination |-> "none", authority |-> "none", amount |-> 0]

\* what the token program does with a transfer it accepts: a transfer whose
\* source is its destination moves nothing
ApplyTransfer(tokens, ix) ==
    IF ix.source = ix.destination THEN tokens
    ELSE [tokens EXCEPT ![ix.source] = @ - ix.amount,
                        ![ix.destination] = @ + ix.amount]

\* the token program rejects a transfer of more than the source holds
TransferFunded(tokens, ix) ==
    /\ tokens[ix.source] # NoFunds
    /\ tokens[ix.source] >= ix.amount

\* ------------------------------------------------------------------ state
VARIABLES
    share_data,      \* account.data of each share account: a ShareAccount or Garbage
    token_amount,    \* amount of each SPL token account, or NoFunds
    pc,              \* position of process_instruction
    accounts,        \* argument: the account list
    instruction_data,\* argument: the instruction bytes
    instruction,     \* local: the decoded instruction
    share_account,   \* local: the unpacked ShareAccount
    total_price,     \* local: the settlement amount
    result,          \* what process_instruction returned
    log,             \* the calls made by the running instruction, in order
    transfer,        \* the transfer instruction handed to invoke
    pre_data,        \* share_data when the instruction started
    pre_tokens,      \* token_amount when the instruction started
    current_holders, current_volume, average_volume, time_since_last_trade,
    base_price,      \* pricing harness: result of base_price_from_holders
    price,           \* pricing harness: result of dual_phase_pricing
    ppc              \* pricing harness: position

ledger_vars == <<share_data, token_amount, pc, accounts, instruction_data, instruction,
                 share_account, total_price, result, log, transfer, pre_data, pre_tokens>>
pricing_vars == <<current_holders, current_volume, average_volume, time_since_last_trade,
                  base_price, price, ppc>>
vars == <<ledger_vars, pricing_vars>>

InitBalances == {0, 10, MaxU64}
InitFunds == {0, 2, MaxU64}

\* the accounts as the host provisioned them, no instruction running
LedgerInit ==
    /\ share_data \in {[k \in ShareKeys |->
                          IF k = "alice" THEN [owner |-> "user_a", balance |-> a]
                          ELSE IF k = "bob" THEN [owner |-> "user_b", balance |-> b]
                          ELSE IF k = "foreign" THEN [owner |-> "user_f", balance |-> 5]
                          ELSE Garbage] : a \in InitBalances, b \in InitBalances}
    /\ token_amount \in {[k \in TokenKeys |-> IF k = "tok" THEN f ELSE NoFunds] :
                           f \in InitFunds}
    /\ pc = "idle"
    /\ accounts = <<>>
    /\ instruction_data = <<>>
    /\ instruction = NoInstruction
    /\ share_account = Garbage
    /\ total_price = 0
    /\ result = "none"
    /\ log = <<>>
    /\ transfer = NoTransfer
    /\ pre_data = share_data
    /\ pre_tokens = token_amount

PricingIdle ==
    /\ current_holders = 0
    /\ current_volume = 0
    /\ average_volume = 0
    /\ time_since_last_trade = 0
    /\ base_price = NAN
    /\ price = NAN
    /\ ppc = "off"

Init == LedgerInit /\ PricingIdle

\* return Err(e) / Ok(()): the instruction ends, the locals are dropped
Return(r) ==
    /\ pc' = "done"
    /\ result' = r

\* the host calls process_instruction(program_id, accounts, instruction_data)
Begin ==
    /\ pc = "idle"
    /\ \E al \in AccountLists, d \in InstructionData :
          /\ accounts' = al
          /\ instruction_data' = d
    /\ pc' = "next_account_info"
    /\ instruction' = NoInstruction
    /\ share_account' = Garbage
    /\ total_price' = 0
    /\ result' = "none"
    /\ log' = <<>>
    /\ transfer' = NoTransfer
    /\ pre_data' = share_data
    /\ pre_tokens' = token_amount
    /\ UNCHANGED <<share_data, token_amount, pricing_vars>>

\* lines 74-76: two next_account_info calls
NextAccountInfo ==
    /\ pc = "next_account_info"
    /\ IF Len(accounts) < 2
       THEN Return("NotEnoughAccountKeys")
       ELSE pc' = "owner_check" /\ UNCHANGED result
    /\ log' = Append(log, "next_account_info")
    /\ UNCHANGED <<share_data, token_amount, accounts, instruction_data, instruction,
                   share_account, total_price, transfer, pre_data, pre_tokens, pricing_vars>>

\* lines 78-80
OwnerCheck ==
    /\ pc = "owner_check"
    /\ IF OwnerMismatch(accounts[1], PROGRAM_ID)
       THEN Return("IncorrectOwner")
       ELSE pc' = "decode" /\ UNCHANGED result
    /\ log' = Append(log, "owner_check")
    /\ UNCHANGED <<share_data, token_amount, accounts, instruction_data, instruction,
                   share_account, total_price, transfer, pre_data, pre_tokens, pricing_vars>>

\* line 82
Decode ==
    /\ pc = "decode"
    /\ instruction' = try_from_slice(instruction_data)
    /\ IF instruction' = NoInstruction
       THEN Return("BorshIoError")
       ELSE pc' = "unpack" /\ UNCHANGED result
    /\ log' = Append(log, "decode")
    /\ UNCHANGED <<share_data, token_amount, accounts, instruction_data,
                   share_account, total_price, transfer, pre_data, pre_tokens, pricing_vars>>

\* lines 86 and 115: ShareAccount::unpack(&account.data.borrow())
Unpack ==
    /\ pc = "unpack"
    /\ IF UnpackShareOk(share_data[accounts[1]])
       THEN /\ share_account' = share_data[accounts[1]]
            /\ pc' = IF instruction.tag = BUY_TAG THEN "buy_check" ELSE "sell_check"
            /\ UNCHANGED result
       ELSE /\ Return("InvalidAccountData")
            /\ UNCHANGED share_account
    /\ log' = Append(log, "unpack_share")
    /\ UNCHANGED <<share_data, token_amount, accounts, instruction_data, instruction,
                   total_price, transfer, pre_data, pre_tokens, pricing_vars>>

\* lines 88-99: price the buy, read the payer's token account, check the funds
BuyCheck ==
    /\ pc = "buy_check"
    /\ total_price' = BuyTotalPrice(share_account.balance, instruction.amount)
    /\ IF ~UnpackTokenOk(token_amount[accounts[2]])
       THEN Return("InvalidAccountData")
       ELSE IF FundsTooLow(token_amount[accounts[2]], total_price')
            THEN Return("InsufficientFunds")
            ELSE pc' = "invoke" /\ UNCHANGED result
    /\ log' = Append(log, "unpack_token")
    /\ UNCHANGED <<share_data, token_amount, accounts, instruction_data, instruction,
                   share_account, transfer, pre_data, pre_tokens, pricing_vars>>

\* lines 117-121: check the balance, price the sell
SellCheck ==
    /\ pc = "sell_check"
    /\ IF BalanceTooLow(share_account.balance, instruction.amount)
       THEN /\ Return("InsufficientFunds")
            /\ UNCHANGED total_price
       ELSE /\ total_price' = SellTotalPrice(share_account.balance, instruction.amount)
            /\ pc' = "invoke"
            /\ UNCHANGED result
    /\ UNCHANGED <<share_data, token_amount, accounts, instruction_data, instruction,
                   share_account, log, transfer, pre_data, pre_tokens, pricing_vars>>

\* mutant: the result of invoke is dropped
NeverPropagates(settled) == FALSE

\* the `?` after invoke: an Err returns from process_instruction
Propagates(settled) == ~settled

\* mutant: a transfer that failed is handed to the token program again
RetryInvoke(settled) == IF settled THEN "mutate" ELSE "invoke"

\* where process_instruction goes after invoke: on to the balance update, or
\* out with the error
AfterInvoke(settled) == IF Propagates(settled) THEN "done" ELSE "mutate"

\* lines 101-109 and 122-130: build the transfer and invoke the token program,
\* which may refuse it for reasons of its own
Invoke ==
    /\ pc = "invoke"
    /\ transfer' = TransferIx(accounts[2], accounts[1], total_price)
    /\ \E accepted \in BOOLEAN :
          LET settled == accepted /\ TransferFunded(token_amount, transfer')
          IN /\ token_amount' = IF settled THEN ApplyTransfer(token_amount, transfer')
                                ELSE token_amount
             /\ log' = Append(log, IF settled THEN "transfer_ok" ELSE "transfer_failed")
             /\ pc' = AfterInvoke(settled)
             /\ result' = IF pc' = "done" THEN "SettlementFailure" ELSE result
    /\ UNCHANGED <<share_data, accounts, instruction_data, instruction,
                   share_account, total_price, pre_data, pre_tokens, pricing_vars>>

\* lines 111 and 132: the balance after `+= amount` / `-= amount`, before the
\* u64 range is applied
NewBalance(tag, balance, amount) ==
    IF tag = BUY_TAG THEN balance + amount ELSE balance - amount

\* mutant: the program's own key is stored as the owner
UpdatedAccountOwnedByProgram(sa, nb) ==
    [owner |-> PROGRAM_ID, balance |-> nb % (MaxU64 + 1)]

\* lines 111 and 132: the ShareAccount with its balance field assigned, the
\* new balance taken in the u64 range
UpdatedAccount(sa, nb) == [sa EXCEPT !.balance = nb % (MaxU64 + 1)]

\* mutant: the account is written over every share account of the program
PackIntoAll(data, key, sa) ==
    [k \in DOMAIN data |->
        IF data[k] # Garbage /\ AccountOwner(k) = PROGRAM_ID THEN sa ELSE data[k]]

\* lines 112 and 133: ShareAccount::pack into the data of `account`
Pack(data, key, sa) == [data EXCEPT ![key] = sa]

\* lines 111-112 and 132-133: update the balance and pack the account. An
\* update that leaves the u64 range panics in a build with overflow checks and
\* wraps in a build without them.
Mutate ==
    /\ pc = "mutate"
    /\ LET nb == NewBalance(instruction.tag, share_account.balance, instruction.amount)
       IN \E overflow_checks \in BOOLEAN :
            IF nb \notin 0..MaxU64 /\ overflow_checks
            THEN /\ Return("Panic")
                 /\ UNCHANGED <<share_account, share_data, log>>
            ELSE /\ share_account' = UpdatedAccount(share_account, nb)
                 /\ share_data' = Pack(share_data, accounts[1], share_account')
                 /\ log' = Append(log, "pack")
                 /\ Return("Ok")
    /\ UNCHANGED <<token_amount, accounts, instruction_data, instruction,
                   total_price, transfer, pre_data, pre_tokens, pricing_vars>>

\* process_instruction has returned: the host takes the result and the
\* arguments and locals are gone
Finish ==
    /\ pc = "done"
    /\ pc' = "idle"
    /\ accounts' = <<>>
    /\ instruction_data' = <<>>
    /\ instruction' = NoInstruction
    /\ share_account' = Garbage
    /\ total_price' = 0
    /\ result' = "none"
    /\ log' = <<>>
    /\ transfer' = NoTransfer
    /\ pre_data' = share_data
    /\ pre_tokens' = token_amount
    /\ UNCHANGED <<share_data, token_amount, pricing_vars>>

LedgerNext ==
    \/ Begin
    \/ Finish
    \/ NextAccountInfo
    \/ OwnerCheck
    \/ Decode
    \/ Unpack
    \/ BuyCheck
    \/ SellCheck
    \/ Invoke
    \/ Mutate

Next == LedgerNext

Spec == Init /\ [][Next]_vars

\* ------------------------------------------- one instruction as a function
\* process_instruction as a whole: the account data, the token amounts, the
\* result and the settlement amount it leaves, given the arguments, whether
\* the token program accepts the transfer, and whether the build checks
\* overflow.
process_instruction(data, tokens, account_list, bytes, accepted, overflow_checks) ==
    LET Err(r, total) == [share_data |-> data, token_amount |-> tokens,
                          result |-> r, total_price |-> total]
    IN
    IF Len(account_list) < 2 THEN Err("NotEnoughAccountKeys", 0)
    ELSE IF OwnerMismatch(account_list[1], PROGRAM_ID) THEN Err("IncorrectOwner", 0)
    ELSE IF try_from_slice(bytes) = NoInstruction THEN Err("BorshIoError", 0)
    ELSE IF ~UnpackShareOk(data[account_list[1]]) THEN Err("InvalidAccountData", 0)
    ELSE
      LET ins == try_from_slice(bytes)
          sa == data[account_list[1]]
          buy == ins.tag = BUY_TAG
          total == IF buy THEN BuyTotalPrice(sa.balance, ins.amount)
                   ELSE SellTotalPrice(sa.balance, ins.amount)
          ix == TransferIx(account_list[2], account_list[1], total)
          settled == accepted /\ TransferFunded(tokens, ix)
          moved == IF settled THEN ApplyTransfer(tokens, ix) ELSE tokens
          nb == NewBalance(ins.tag, sa.balance, ins.amount)
      IN
      IF buy /\ ~UnpackTokenOk(tokens[account_list[2]]) THEN Err("InvalidAccountData", total)
      ELSE IF buy /\ FundsTooLow(tokens[account_list[2]], total)
           THEN Err("InsufficientFunds", total)
      ELSE IF ~buy /\ BalanceTooLow(sa.balance, ins.amount) THEN Err("InsufficientFunds", 0)
      ELSE IF AfterInvoke(settled) = "done" THEN Err("SettlementFailure", total)
      ELSE IF nb \notin 0..MaxU64 /\ overflow_checks
           THEN [share_data |-> data, token_amount |-> moved,
                 result |-> "Panic", total_price |-> total]
      ELSE [share_data |-> Pack(data, account_list[1], UpdatedAccount(sa, nb)),
            token_amount |-> moved, result |-> "Ok", total_price |-> total]

\* one instruction from the accounts as provisioned: every step of
\* process_instruction, and no second call
OrderNext ==
    \/ Begin
    \/ NextAccountInfo
    \/ OwnerCheck
    \/ Decode
    \/ Unpack
    \/ BuyCheck
    \/ SellCheck
    \/ Invoke
    \/ Mutate

OrderSpec == Init /\ [][OrderNext]_vars

\* ------------------------------------------------------ pricing harness
\* The harness calls the two pricing functions on drawn inputs: a holder
\* count, two volumes, and a time since the last trade counted in half hours.
TimeF64(halves) == Fin(halves, 2)

PricingInit ==
    /\ LedgerInit
    /\ share_data["alice"].balance = 0
    /\ share_data["bob"].balance = 0
    /\ token_amount["tok"] = 0
    /\ current_holders \in 0..MaxHolders
    /\ current_volume \in 0..MaxVolume
    /\ average_volume \in 0..MaxVolume
    /\ time_since_last_trade \in 0..MaxTimeHalves
    /\ base_price = NAN
    /\ price = NAN
    /\ ppc = "start"

CallBasePrice ==
    /\ ppc = "start"
    /\ base_price' = base_price_from_holders(current_holders)
    /\ ppc' = "based"
    /\ UNCHANGED <<ledger_vars, current_holders, current_volume, average_volume,
                   time_since_last_trade, price>>

CallDualPhasePricing ==
    /\ ppc = "based"
    /\ price' = dual_phase_pricing(current_holders, AsF64(current_volume),
                                   AsF64(average_volume), TimeF64(time_since_last_trade))
    /\ ppc' = "priced"
    /\ UNCHANGED <<ledger_vars, current_holders, current_volume, average_volume,
                   time_since_last_trade, base_price>>

PricingNext == CallBasePrice \/ CallDualPhasePricing

PricingSpec == PricingInit /\ [][PricingNext]_vars

\* ------------------------------------------------------------- claims
\* equality of f64 values as rationals
FEq(x, y) == x.k = y.k /\ x.n * y.d = y.n * x.d

\* C9: base_price_from_holders(h) is 0.1*h for h <= 10 and (h - 10) + 1.0 for
\* h > 10; it is exactly 1.0 at h = 10, exactly 2.0 at h = 11 and 0 at h = 0.
C9_BasePriceCurve ==
    ppc \in {"based", "priced"} =>
        /\ base_price.k = "fin"
        /\ current_holders <= 10 => base_price.n * 10 = current_holders * base_price.d
        /\ current_holders > 10 => base_price.n = (current_holders - 9) * base_price.d
        /\ current_holders = 10 => base_price.n = base_price.d
        /\ current_holders = 11 => base_price.n = 2 * base_price.d
        /\ current_holders = 0 => base_price.n = 0

C9_Witness ==
    /\ ppc = "based"
    /\ current_holders = 11
    /\ base_price = Fin(2, 1)

\* C10: with a nonzero average volume, dual_phase_pricing is base * 0.995
\* (whatever the volumes) when the time since the last trade exceeds 24, and
\* base * (1 + 0.01 * v/a) when it is at most 24, 24 itself included.
C10_DualPhase ==
    (ppc = "priced" /\ average_volume # 0) =>
        /\ price.k = "fin"
        /\ time_since_last_trade > 2 * 24 =>
              price.n * base_price.d * 1000 = 995 * base_price.n * price.d
        /\ time_since_last_trade <= 2 * 24 =>
              price.n * base_price.d * 100 * average_volume
                 = base_price.n * (100 * average_volume + current_volume) * price.d

C10_Witness ==
    /\ ppc = "priced"
    /\ time_since_last_trade = 2 * 24
    /\ current_holders = 5
    /\ current_volume = 3
    /\ average_volume = 2
    /\ FEq(price, Fin(203, 400))

\* ---- claims about process_instruction
Done == pc = "done"

\* the call e is in the running instruction's log
Has(e) == \E i \in 1..Len(log) : log[i] = e

\* a transfer was handed to the token program
Invoked == Has("transfer_ok") \/ Has("transfer_failed")

\* the instruction bytes, read without the decoder
IsBuyData == Len(instruction_data) = 2 /\ instruction_data[1] = 0
IsSellData == Len(instruction_data) = 2 /\ instruction_data[1] = 1
Malformed == ~IsBuyData /\ ~IsSellData
DataAmount == instruction_data[2]

\* the instruction got as far as its buy or sell branch with a share account
\* that unpacks
OnBuyPath == IsBuyData /\ Has("unpack_share") /\ pre_data[accounts[1]] # Garbage
OnSellPath == IsSellData /\ Has("unpack_share") /\ pre_data[accounts[1]] # Garbage

\* C1: a sell of more than the balance fails with InsufficientFunds, makes no
\* settlement call and leaves the balance unchanged; a sell that succeeds
\* leaves the balance minus the amount, which is not negative; and every
\* stored balance stays in the unsigned range.
C1_SellNeverOverdraws ==
    /\ \A k \in ShareKeys :
          share_data[k] # Garbage => share_data[k].balance \in 0..MaxU64
    /\ (Done /\ OnSellPath /\ DataAmount > pre_data[accounts[1]].balance) =>
          /\ result = "InsufficientFunds"
          /\ ~Invoked
          /\ transfer = NoTransfer
          /\ share_data = pre_data
    /\ (Done /\ OnSellPath /\ result = "Ok") =>
          /\ pre_data[accounts[1]].balance - DataAmount >= 0
          /\ share_data[accounts[1]].balance = pre_data[accounts[1]].balance - DataAmount

C1_Witness ==
    /\ Done
    /\ OnSellPath
    /\ DataAmount = 3
    /\ pre_data[accounts[1]].balance = 2
    /\ result = "InsufficientFunds"
    /\ share_data[accounts[1]].balance = 2

\* C2 (as claimed): a buy that succeeds leaves the old balance plus exactly the
\* amount, and a buy that fails leaves the balance unchanged.
C2_BuyAddsExactly ==
    (Done /\ IsBuyData /\ Len(accounts) = 2) =>
        IF result = "Ok"
        THEN share_data[accounts[1]].balance = pre_data[accounts[1]].balance + DataAmount
        ELSE share_data = pre_data

\* C3: an instruction on an account that the program does not own fails with
\* IncorrectOwner, makes no settlement call and leaves every balance unchanged,
\* whatever the instruction bytes are.
C3_IncorrectOwnerRejected ==
    (Done /\ Len(accounts) = 2 /\ AccountOwner(accounts[1]) # PROGRAM_ID) =>
        /\ result = "IncorrectOwner"
        /\ ~Invoked
        /\ transfer = NoTransfer
        /\ share_data = pre_data
        /\ token_amount = pre_tokens

C3_Witness ==
    /\ Done
    /\ accounts = <<"foreign", "tok">>
    /\ instruction_data = <<0, 3>>
    /\ token_amount["tok"] = MaxU64
    /\ result = "IncorrectOwner"
    /\ share_data["foreign"].balance = 5

\* C4: the account is written only after a transfer that succeeded in the same
\* instruction, and an instruction whose transfer failed writes nothing.
C4_SettleThenMutate ==
    /\ \A i \in 1..Len(log) :
          log[i] = "pack" => \E j \in 1..(i - 1) : log[j] = "transfer_ok"
    /\ share_data # pre_data => Has("transfer_ok") /\ Has("pack")
    /\ Has("transfer_failed") => share_data = pre_data /\ ~Has("pack")

C4_Witness ==
    /\ Done
    /\ IsSellData
    /\ log = <<"next_account_info", "owner_check", "decode", "unpack_share",
               "transfer_ok", "pack">>
    /\ share_data[accounts[1]].balance = pre_data[accounts[1]].balance - 2
    /\ DataAmount = 2

\* C5 (as claimed): an instruction ends either settled (transfer executed, the
\* account written, Ok returned) or rejected (no transfer executed, nothing
\* written, an error returned).
C5_AllOrNothing ==
    Done =>
        \/ Has("transfer_ok") /\ Has("pack") /\ result = "Ok"
        \/ ~Has("transfer_ok") /\ ~Has("pack") /\ share_data = pre_data /\ result # "Ok"

\* C6: on the buy path, with a payer account that unpacks, funds below the
\* price end the instruction with InsufficientFunds before any transfer and
\* with nothing written; funds equal to or above the price pass the check and
\* the transfer is handed to the token program.
C6_BuyFundsCheck ==
    (OnBuyPath /\ Has("unpack_token") /\ pre_tokens[accounts[2]] # NoFunds) =>
        IF pre_tokens[accounts[2]] < total_price
        THEN /\ Done
             /\ result = "InsufficientFunds"
             /\ ~Invoked
             /\ transfer = NoTransfer
             /\ share_data = pre_data
        ELSE /\ result # "InsufficientFunds"
             /\ pc \in {"invoke", "mutate", "done"}
             /\ Done => Invoked

C6_Witness ==
    /\ Done
    /\ OnBuyPath
    /\ total_price = 2
    /\ pre_tokens[accounts[2]] = 2
    /\ result = "Ok"

\* C7 (as claimed): the transfer of a successful instruction is between two
\* distinct parties and moves the settlement amount out of its source and into
\* its destination.
C7_TransferMovesFunds ==
    (Done /\ result = "Ok" /\ total_price > 0) =>
        /\ transfer.source # transfer.destination
        /\ token_amount[transfer.source] = pre_tokens[transfer.source] - total_price
        /\ token_amount[transfer.destination]
              = pre_tokens[transfer.destination] + total_price

\* C8 (as claimed): undecodable instruction bytes fail with the
\* deserialization error before the owner check and before the share account
\* is read, with no settlement call and nothing written.
C8_DecodeBeforeOwnerCheck ==
    (Done /\ Malformed /\ Len(accounts) = 2) =>
        /\ result = "BorshIoError"
        /\ ~Has("owner_check")
        /\ ~Has("unpack_share")
        /\ ~Invoked
        /\ share_data = pre_data

\* C8 (amended): undecodable instruction bytes end the instruction before the
\* share account's data is read, with no settlement call and nothing written;
\* the decode follows the owner check, so the error is the deserialization
\* error when the program owns the account and IncorrectOwner when it does not.
C8_DecodeAfterOwnerCheck ==
    (Done /\ Malformed /\ Len(accounts) = 2) =>
        /\ ~Has("unpack_share")
        /\ ~Has("unpack_token")
        /\ ~Invoked
        /\ transfer = NoTransfer
        /\ share_data = pre_data
        /\ token_amount = pre_tokens
        /\ IF AccountOwner(accounts[1]) # PROGRAM_ID
           THEN result = "IncorrectOwner"
                /\ log = <<"next_account_info", "owner_check">>
           ELSE result = "BorshIoError"
                /\ log = <<"next_account_info", "owner_check", "decode">>

C8_Witness ==
    /\ Done
    /\ accounts = <<"alice", "tok">>
    /\ instruction_data = <<2, 1>>
    /\ result = "BorshIoError"
    /\ log = <<"next_account_info", "owner_check", "decode">>

\* ten times the base price at a holder count, by the curve of the claims
BaseTenths(h) == IF h <= 10 THEN h ELSE (h - 9) * 10

\* the balance the running instruction found in its share account
PreBalance == pre_data[accounts[1]].balance

\* C11 (as claimed): the settlement amount of a buy is
\* floor(base_price_from_holders(balance) * (1 + 0.01 * 10/7) * amount), with
\* the balance before the buy as the holder count.
C11_BuyCostIsFloor ==
    (OnBuyPath /\ Has("unpack_token")) =>
        total_price = (BaseTenths(PreBalance) * 71 * DataAmount) \div 700

\* C12 (as claimed): the settlement amount of a sell is
\* floor(base_price_from_holders(balance) * amount), with the balance before
\* the sell as the holder count, and the buy price of the same balance is the
\* sell price times the volume premium.
C12_SellProceedsIsFloor ==
    (OnSellPath /\ pc \in {"invoke", "mutate", "done"} /\ DataAmount <= PreBalance) =>
        /\ total_price = (BaseTenths(PreBalance) * DataAmount) \div 10
        /\ FEq(dual_phase_pricing(AsU32(PreBalance),
                                  AsF64(DEFAULT_CURRENT_VOLUME),
                                  AsF64(DEFAULT_AVERAGE_VOLUME),
                                  AsF64(DEFAULT_TIME_SINCE_LAST_TRADE)),
               FMul(base_price_from_holders(AsU32(PreBalance)), Fin(71, 70)))

\* C16 (as claimed): the holder count handed to the pricing function is the
\* balance itself, and no smaller balance is priced higher.
C16_HoldersIsBalance ==
    (OnBuyPath \/ OnSellPath) =>
        /\ AsU32(PreBalance) = PreBalance
        /\ \A b \in 0..PreBalance :
              ~FGt(base_price_from_holders(AsU32(b)),
                   base_price_from_holders(AsU32(PreBalance)))

\* the number of times the call e is in the running instruction's log
Count(e) == Cardinality({i \in 1..Len(log) : log[i] = e})

\* C13: a sell of at most the balance, the whole balance included, is not
\* refused by the program and reads no payer funds before the transfer; when
\* the transfer succeeds the instruction returns Ok with the balance lowered
\* by exactly the amount.
C13_SellDecrements ==
    (OnSellPath /\ DataAmount <= PreBalance) =>
        /\ ~Has("unpack_token")
        /\ result # "InsufficientFunds"
        /\ Done => Invoked
        /\ (Done /\ Has("transfer_ok")) =>
              /\ result = "Ok"
              /\ share_data[accounts[1]].balance = PreBalance - DataAmount

C13_Witness ==
    /\ Done
    /\ OnSellPath
    /\ PreBalance = 4
    /\ DataAmount = 4
    /\ total_price = 1
    /\ result = "Ok"
    /\ share_data[accounts[1]].balance = 0

\* C14: an instruction hands at most one transfer to the token program and
\* writes the account at most once; a transfer that failed is the last thing
\* the instruction does.
C14_NoRetry ==
    /\ Count("transfer_ok") + Count("transfer_failed") <= 1
    /\ Count("pack") <= 1
    /\ Has("transfer_failed") =>
          /\ Done
          /\ result = "SettlementFailure"
          /\ log[Len(log)] = "transfer_failed"
          /\ share_data = pre_data

C14_Witness ==
    /\ Done
    /\ IsBuyData
    /\ DataAmount = 2
    /\ Count("transfer_failed") = 1
    /\ Count("transfer_ok") = 0
    /\ result = "SettlementFailure"

\* the owner each share account was created with
CreatedOwner(k) ==
    IF k = "alice" THEN "user_a"
    ELSE IF k = "bob" THEN "user_b"
    ELSE IF k = "foreign" THEN "user_f" ELSE "none"

\* C17: the stored owner of every share account is the owner it was created
\* with; an instruction changes at most the balance field of its account.
C17_OwnerImmutable ==
    \A k \in ShareKeys :
        /\ share_data[k].owner = CreatedOwner(k)
        /\ share_data[k] = [pre_data[k] EXCEPT !.balance = share_data[k].balance]

C17_Witness ==
    /\ Done
    /\ result = "Ok"
    /\ accounts[1] = "alice"
    /\ IsSellData
    /\ share_data["alice"].balance = PreBalance - 1
    /\ share_data["alice"].owner = "user_a"

\* C18: a buy against balance 0 is priced 0 whatever the amount, passes the
\* funds check whatever the payer holds, and when the transfer succeeds leaves
\* balance = amount with no funds moved.
C18_FreeFirstBuy ==
    (OnBuyPath /\ PreBalance = 0 /\ Has("unpack_token")
               /\ pre_tokens[accounts[2]] # NoFunds) =>
        /\ total_price = 0
        /\ result # "InsufficientFunds"
        /\ (Done /\ Has("transfer_ok")) =>
              /\ result = "Ok"
              /\ share_data[accounts[1]].balance = DataAmount
              /\ transfer.amount = 0
              /\ token_amount = pre_tokens

C18_Witness ==
    /\ Done
    /\ OnBuyPath
    /\ PreBalance = 0
    /\ DataAmount = 4
    /\ pre_tokens[accounts[2]] = 0
    /\ result = "Ok"
    /\ share_data[accounts[1]].balance = 4

\* the choices an instruction leaves open: whether the token program accepts
\* the transfer, and whether the build checks overflow
Choices == BOOLEAN \X BOOLEAN

\* process_instruction under a pair of choices
Run(data, tokens, account_list, bytes, c) ==
    process_instruction(data, tokens, account_list, bytes, c[1], c[2])

\* the choices under which the function gives what the running instruction left
Explains(c) ==
    LET o == Run(pre_data, pre_tokens, accounts, instruction_data, c)
    IN o.share_data = share_data /\ o.token_amount = token_amount /\ o.result = result

\* buy and sell instructions on the share accounts of the program other than
\* the running instruction's account
OtherInstructions ==
    {<<<<k, t>>, <<g, a>>>> :
        k \in {x \in ShareKeys \ {accounts[1]} :
                  AccountOwner(x) = PROGRAM_ID /\ pre_data[x] # Garbage},
        t \in TokenKeys, g \in {0, 1}, a \in Byte}

\* C15: an instruction leaves every share account other than its own as it
\* was, and a buy or sell run before or after a buy or sell on another share
\* account leaves the same share accounts and returns the same result.
C15_Independent ==
    /\ \A k \in ShareKeys :
          (Len(accounts) = 0 \/ k # accounts[1]) => share_data[k] = pre_data[k]
    /\ Done => \E c \in Choices : Explains(c)
    /\ (Done /\ Len(accounts) = 2 /\ ~Malformed) =>
          LET explaining == {c \in Choices : Explains(c)}
          IN \A i2 \in OtherInstructions, c2 \in Choices :
                LET o12 == Run(share_data, token_amount, i2[1], i2[2], c2)
                    o2 == Run(pre_data, pre_tokens, i2[1], i2[2], c2)
                IN /\ o12.result = o2.result
                   /\ \A c1 \in explaining :
                         LET o21 == Run(o2.share_data, o2.token_amount,
                                        accounts, instruction_data, c1)
                         IN /\ o12.share_data = o21.share_data
                            /\ o21.result = result

C15_Witness ==
    /\ Done
    /\ accounts = <<"alice", "tok">>
    /\ instruction_data = <<0, 2>>
    /\ result = "Ok"
    /\ total_price = 2
    /\ share_data["alice"].balance = 12
    /\ share_data["bob"].balance = 10
    /\ LET o == Run(share_data, token_amount, <<"bob", "tok">>, <<0, 1>>, <<TRUE, TRUE>>)
       IN o.result = "Ok" /\ o.share_data["bob"].balance = 11 /\ o.total_price = 1

\* C19 (as claimed): a successful buy of an amount followed at once by a
\* successful sell of the same amount on the same account returns the balance
\* to what it was, and the proceeds of the sell do not exceed the cost of the
\* buy.
C19_RoundTrip ==
    (Done /\ OnBuyPath /\ result = "Ok" /\ (\E c \in Choices : Explains(c))) =>
        \A c \in Choices :
            LET o == Run(share_data, token_amount, accounts, <<1, DataAmount>>, c)
            IN o.result = "Ok" =>
                  /\ o.share_data[accounts[1]].balance = PreBalance
                  /\ o.total_price <= total_price

====
